---- MODULE Spec2Model ----
(***************************************************************************)
(* State-machine model of the orchestrator's approval gate                 *)
(* (src/api/approval_manager.py, src/api/approval.py), task lifecycle      *)
(* manager (src/web/task_manager.py), workflow graph                       *)
(* (src/orchestrator/graph_v2.py, edges.py, nodes.py, hitl_integration.py) *)
(* and event stream (src/web/server.py).                                   *)
(*                                                                         *)
(* Everything runs on one asyncio event loop: a coroutine runs without     *)
(* interruption from one real suspension point to the next, so every       *)
(* action below is one such uninterrupted stretch.  Putting an item on an  *)
(* unbounded asyncio.Queue and awaiting a callback that only does that do  *)
(* not suspend.                                                            *)
(***************************************************************************)
EXTENDS Integers, Sequences, FiniteSets, TLC

\* ---------------------------------------------------------------- bounds
NumRequests == 2        \* approval requests that may be created
MaxDecisionCalls == 2   \* approve/reject calls that may be issued
NumTasks == 2           \* tasks that may be started
MaxIterations == 1      \* largest max_iterations a task request may carry
MaxSnapshotIterations == 2   \* largest max_iterations of a snapshot passed to the supervisor
MaxCancels == 2         \* cancel_task calls that may be issued
NumSubscribers == 2     \* connections to the event stream that may be opened
MaxLastSeen == 1        \* largest Last-Event-ID a connecting client may present

\* ------------------------------------------------------ program constants
max_retries == 3        \* TaskState.max_retries default

Requests == 1..NumRequests
Tasks == 1..NumTasks
NoTask == 0             \* task_id = None
Notes == {"n1", "n2"}   \* decision notes supplied by callers
NoNote == "none"

\* OperationType members used by the callers of request_approval
OperationType == {"agent_call", "pr_create", "git_push", "git_force_push"}

\* RiskClassifier.RISK_LEVELS / RiskClassifier.classify
RISK_LEVELS ==
    [op \in OperationType |->
        CASE op = "agent_call" -> "low"
          [] op = "pr_create" -> "medium"
          [] op = "git_push" -> "high"
          [] op = "git_force_push" -> "critical"]

\* RiskLevel
RiskLevel == {"low", "medium", "high", "critical"}

\* arguments classify may be given: the modelled operation kinds and one value
\* that is no key of RISK_LEVELS
OperationKinds == OperationType \cup {"unlisted"}

classify(op) == IF op \in DOMAIN RISK_LEVELS THEN RISK_LEVELS[op] ELSE "medium"

requires_approval_AlwaysTrue(risk_level) == TRUE

requires_approval_HighOnly(risk_level) == risk_level \in {"high", "critical"}

\* RiskClassifier.requires_approval
requires_approval(risk_level) == risk_level \in {"medium", "high", "critical"}

VARIABLES
    \* ---- ApprovalManager
    nextReq,            \* number of requests created so far + 1 (fresh request_id)
    requests,           \* request_id -> ApprovalRequest fields
    pending_requests,   \* keys of ApprovalManager.pending_requests
    history,            \* ApprovalManager.history (request ids, append order)
    approval_events,    \* ApprovalManager._events: "absent" | "clear" | "set"
    wpc,                \* position of the coroutine inside request_approval
    raResult,           \* outcome of request_approval seen by its caller
    numCalls,           \* number of approve/reject calls made so far
    okCalls,            \* request_id -> the approve/reject calls on it that returned true
    lastCall,           \* the latest approve/reject call, with its return value
    callbacks,          \* _on_request_created / _on_request_decided: the observer installed
    \* ---- TaskManager
    status,             \* TaskInfo.status / tasks[id].status ("absent" before start_task)
    events,             \* TaskManager.events: task -> list of ProgressEvent
    event_queues,       \* TaskManager.event_queues: task -> asyncio.Queue contents
    queue_exists,       \* keys of TaskManager.event_queues
    background_tasks,   \* keys of TaskManager.background_tasks
    graph_to_manager,   \* tasks whose graph id is in _graph_to_manager_task
    \* ---- background unit of work of each task, and the shared orchestrator
    params,             \* TaskRequest of each task: max_iterations, enable_hitl, informational
    hitl_enabled,       \* orchestrator.hitl_gate.enabled (one gate shared by all tasks)
    bpc,                \* position of the task's _run_orchestration coroutine
    cancel_requested,   \* asyncio.Task.cancel() was called and not yet delivered
    g,                  \* the TaskState the graph carries from node to node
    prev_agent,         \* _prev_agent[0] of the task's progress_callback
    prev_iteration,     \* _prev_iteration[0] of the task's progress_callback
    curReq,             \* the request the task's approval gate is suspended on (0: none)
    numCancels,         \* number of cancel_task calls made so far
    lastCancel,         \* the latest cancel_task call, with its return value
    \* ---- stream_task_progress connections
    subs,               \* subscriber -> position and deliveries of its event_generator
    \* ---- EnhancedSupervisor called by a direct caller
    sup,                \* the arguments of the call and the RoutingDecision it returned
    \* ---- the EnhancedSupervisor of the shared orchestrator
    decision_history,   \* supervisor.decision_history: the task each decision was made for
    decisions_of,       \* task -> number of decisions decide_next_route recorded for it
    final_decisions,    \* task -> the decisions listed in its final output
    \* ---- a TaskState whose transition helpers a direct caller invokes
    ts                  \* its fields, the helper called on it and the status before the call

approvalVars == <<nextReq, requests, pending_requests, history, approval_events,
                  wpc, raResult, numCalls, okCalls, lastCall, callbacks>>
managerVars == <<status, events, event_queues, queue_exists, background_tasks,
                 graph_to_manager>>
bgVars == <<params, hitl_enabled, bpc, cancel_requested, g, prev_agent, prev_iteration,
           curReq, numCancels, lastCancel, subs>>
supervisorVars == <<decision_history, decisions_of, final_decisions>>
directVars == <<sup, ts>>
vars == <<approvalVars, managerVars, bgVars, directVars, supervisorVars>>

\* request.task_id values: None, a TaskManager task id, or the id the graph minted
NoTaskId == [kind |-> "none", id |-> NoTask]
ManagerId(t) == [kind |-> "manager", id |-> t]
GraphId(t) == [kind |-> "graph", id |-> t]

NoRequest == [operation_type |-> "none", risk_level |-> "none", task_id |-> NoTaskId,
              status |-> "none", decision_note |-> NoNote, waiter |-> NoTask]
NoCall == [op |-> "none", r |-> 0, note |-> NoNote, ret |-> FALSE]
NoResult == [kind |-> "none", approved |-> FALSE, note |-> NoNote]

\* ------------------------------------------------------------ event stream

NextEventId_Stale(log) == IF Len(log) = 0 THEN 0 ELSE Len(log) - 1

\* TaskManager._emit_event: event_id = len(self.events[task_id])
NextEventId(log) == Len(log)

ProgressEvent(log, kind, rid) ==
    [event_id |-> NextEventId(log), event |-> kind, request_id |-> rid]

RECURSIVE AppendEvents(_, _)
\* a run of consecutive _emit_event calls on one log
AppendEvents(log, items) ==
    IF items = <<>> THEN log
    ELSE AppendEvents(Append(log, ProgressEvent(log, items[1][1], items[1][2])), Tail(items))

\* TaskManager._emit_event applied to task t for each <<kind, request_id>> of items:
\* store the event, then put it on the task's queue when the task has one
EmitEvents(t, items) ==
    LET newLog == AppendEvents(events[t], items)
        added == SubSeq(newLog, Len(events[t]) + 1, Len(newLog))
    IN /\ events' = [events EXCEPT ![t] = newLog]
       /\ event_queues' = IF t \in queue_exists
                             THEN [event_queues EXCEPT ![t] = @ \o added]
                             ELSE event_queues

resolve_sse_task_id_AnyActive(tid) ==
    IF tid.kind = "manager" /\ tid.id \in queue_exists
        THEN tid.id
    ELSE LET active == {t \in background_tasks : t \in queue_exists}
         IN IF active # {} THEN CHOOSE t \in active : \A u \in active : t <= u ELSE NoTask

\* TaskManager._resolve_sse_task_id; NoTask stands for None
resolve_sse_task_id(tid) ==
    IF tid.kind = "manager" /\ tid.id \in queue_exists
        THEN tid.id
    ELSE IF tid.kind = "graph" /\ tid.id \in graph_to_manager /\ tid.id \in queue_exists
        THEN tid.id
    ELSE LET active == {t \in background_tasks : t \in queue_exists}
         IN IF Cardinality(active) = 1 THEN CHOOSE t \in active : TRUE ELSE NoTask

\* on_approval_requested: emit APPROVAL_REQUIRED to the resolved task, if any
on_approval_requested(r, tid) ==
    LET target == resolve_sse_task_id(tid)
    IN IF target = NoTask
          THEN UNCHANGED <<events, event_queues>>
          ELSE EmitEvents(target, << <<"approval_required", r>> >>)

\* on_approval_decided for an approved or rejected request
on_approval_decided(r) ==
    LET target == resolve_sse_task_id(requests[r].task_id)
    IN IF target = NoTask
          THEN UNCHANGED <<events, event_queues>>
          ELSE EmitEvents(target, << <<"approval_decided", r>> >>)

\* on_approval_decided for a timed-out request: ProgressEventType has no
\* APPROVAL_TIMEOUT member, the attribute lookup raises and request_approval
\* logs the callback error; nothing is emitted
on_approval_decided_timeout(r) == UNCHANGED <<events, event_queues>>

\* ------------------------------------------------------- ApprovalManager

\* the observers set_callbacks can install: the ones TaskManager wires at
\* construction, or observers that raise when called
Observers == {"wired", "raising"}

\* request_approval calling self._on_request_created inside try/except: an
\* exception of the observer is logged and dropped
on_request_created(r, tid) ==
    IF callbacks = "raising" THEN UNCHANGED <<events, event_queues>>
    ELSE on_approval_requested(r, tid)

\* approve/reject calling self._on_request_decided inside try/except
on_request_decided(r) ==
    IF callbacks = "raising" THEN UNCHANGED <<events, event_queues>>
    ELSE on_approval_decided(r)

\* the timeout branch calling self._on_request_decided inside try/except
on_request_decided_timeout(r) ==
    IF callbacks = "raising" THEN UNCHANGED <<events, event_queues>>
    ELSE on_approval_decided_timeout(r)

\* ApprovalManager.set_callbacks with both observers given
SetCallbacks(c) ==
    /\ callbacks # c
    /\ callbacks' = c
    /\ UNCHANGED <<directVars, supervisorVars, nextReq, requests, pending_requests, history, approval_events,
                   wpc, raResult, numCalls, okCalls, lastCall, managerVars, bgVars>>

\* request_approval up to its suspension, for the caller `waiter` (NoTask: a direct caller)
RegisterRequest(r, op, tid, waiter) ==
    LET risk == classify(op)
    IN /\ nextReq' = r + 1
       /\ IF ~requires_approval(risk)
             THEN /\ requests' = [requests EXCEPT ![r] =
                        [operation_type |-> op, risk_level |-> risk, task_id |-> tid,
                         status |-> "pending", decision_note |-> NoNote, waiter |-> waiter]]
                  /\ raResult' = [raResult EXCEPT ![r] =
                        [kind |-> "returned", approved |-> TRUE, note |-> "auto"]]
                  /\ wpc' = [wpc EXCEPT ![r] = "done"]
                  /\ UNCHANGED <<pending_requests, approval_events, events, event_queues>>
             ELSE /\ requests' = [requests EXCEPT ![r] =
                        [operation_type |-> op, risk_level |-> risk, task_id |-> tid,
                         status |-> "pending", decision_note |-> NoNote, waiter |-> waiter]]
                  /\ pending_requests' = pending_requests \cup {r}
                  /\ approval_events' = [approval_events EXCEPT ![r] = "clear"]
                  /\ on_request_created(r, tid)
                  /\ wpc' = [wpc EXCEPT ![r] = "waiting"]
                  /\ UNCHANGED raResult

\* a direct caller of ApprovalManager.request_approval (POST /approvals, tests)
RequestApproval(op, tid) ==
    /\ nextReq \in Requests
    /\ RegisterRequest(nextReq, op, tid, NoTask)
    /\ UNCHANGED <<directVars, supervisorVars, callbacks, history, numCalls, okCalls, lastCall, status, queue_exists,
                   background_tasks, graph_to_manager, bgVars>>

Decide_DropsNote(r, newStatus, note) ==
    /\ requests' = [requests EXCEPT ![r].status = newStatus]
    /\ approval_events' = IF approval_events[r] # "absent"
                             THEN [approval_events EXCEPT ![r] = "set"]
                             ELSE approval_events
    /\ wpc' = IF approval_events[r] # "absent" /\ wpc[r] = "waiting"
                 THEN [wpc EXCEPT ![r] = "woken"]
                 ELSE wpc
    /\ on_request_decided(r)

\* the part of approve/reject after the lookup succeeded
Decide(r, newStatus, note) ==
    /\ requests' = [requests EXCEPT ![r].status = newStatus, ![r].decision_note = note]
    /\ approval_events' = IF approval_events[r] # "absent"
                             THEN [approval_events EXCEPT ![r] = "set"]
                             ELSE approval_events
    /\ wpc' = IF approval_events[r] # "absent" /\ wpc[r] = "waiting"
                 THEN [wpc EXCEPT ![r] = "woken"]
                 ELSE wpc
    /\ on_request_decided(r)

DecisionCall_FindsResolved(op, r, note, newStatus) ==
    /\ numCalls < MaxDecisionCalls
    /\ numCalls' = numCalls + 1
    /\ IF requests[r].status # "none"
          THEN /\ Decide(r, newStatus, note)
               /\ okCalls' = [okCalls EXCEPT ![r] = Append(@, [op |-> op, note |-> note])]
               /\ lastCall' = [op |-> op, r |-> r, note |-> note, ret |-> TRUE]
          ELSE /\ lastCall' = [op |-> op, r |-> r, note |-> note, ret |-> FALSE]
               /\ UNCHANGED <<requests, approval_events, wpc, events, event_queues, okCalls>>
    /\ UNCHANGED <<directVars, supervisorVars, callbacks, nextReq, pending_requests, history, raResult, status, queue_exists,
                   background_tasks, graph_to_manager, bgVars>>

DecisionCall_Propagates(op, r, note, newStatus) ==
    /\ numCalls < MaxDecisionCalls
    /\ numCalls' = numCalls + 1
    /\ IF r \in pending_requests
          THEN /\ Decide(r, newStatus, note)
               /\ IF callbacks = "raising"
                     THEN /\ okCalls' = okCalls
                          /\ lastCall' = [op |-> op, r |-> r, note |-> note, ret |-> FALSE]
                     ELSE /\ okCalls' = [okCalls EXCEPT ![r] =
                                            Append(@, [op |-> op, note |-> note])]
                          /\ lastCall' = [op |-> op, r |-> r, note |-> note, ret |-> TRUE]
          ELSE /\ lastCall' = [op |-> op, r |-> r, note |-> note, ret |-> FALSE]
               /\ UNCHANGED <<requests, approval_events, wpc, events, event_queues, okCalls>>
    /\ UNCHANGED <<directVars, supervisorVars, callbacks, nextReq, pending_requests, history, raResult, status,
                   queue_exists, background_tasks, graph_to_manager, bgVars>>

DecisionCall_TouchesTask(op, r, note, newStatus) ==
    /\ numCalls < MaxDecisionCalls
    /\ numCalls' = numCalls + 1
    /\ IF r \in pending_requests
          THEN /\ Decide(r, newStatus, note)
               /\ okCalls' = [okCalls EXCEPT ![r] = Append(@, [op |-> op, note |-> note])]
               /\ lastCall' = [op |-> op, r |-> r, note |-> note, ret |-> TRUE]
               /\ status' = IF requests[r].waiter \in Tasks /\ op = "reject"
                               THEN [status EXCEPT ![requests[r].waiter] = "failed"]
                               ELSE status
          ELSE /\ lastCall' = [op |-> op, r |-> r, note |-> note, ret |-> FALSE]
               /\ UNCHANGED <<requests, approval_events, wpc, events, event_queues, okCalls,
                              status>>
    /\ UNCHANGED <<directVars, supervisorVars, callbacks, nextReq, pending_requests, history, raResult,
                   queue_exists, background_tasks, graph_to_manager, bgVars>>

\* approve/reject: look the id up in the pending set, decide it when found
DecisionCall(op, r, note, newStatus) ==
    /\ numCalls < MaxDecisionCalls
    /\ numCalls' = numCalls + 1
    /\ IF r \in pending_requests
          THEN /\ Decide(r, newStatus, note)
               /\ okCalls' = [okCalls EXCEPT ![r] = Append(@, [op |-> op, note |-> note])]
               /\ lastCall' = [op |-> op, r |-> r, note |-> note, ret |-> TRUE]
          ELSE /\ lastCall' = [op |-> op, r |-> r, note |-> note, ret |-> FALSE]
               /\ UNCHANGED <<requests, approval_events, wpc, events, event_queues, okCalls>>
    /\ UNCHANGED <<directVars, supervisorVars, callbacks, nextReq, pending_requests, history, raResult, status, queue_exists,
                   background_tasks, graph_to_manager, bgVars>>

\* ApprovalManager.approve
Approve(r, note) == DecisionCall("approve", r, note, "approved")

\* ApprovalManager.reject
Reject(r, note) == DecisionCall("reject", r, note, "rejected")

\* asyncio.wait_for: the timeout expires while the coroutine waits on the event;
\* the waiting coroutine is resumed with TimeoutError at its next step
TimeoutFires(r) ==
    /\ wpc[r] = "waiting"
    /\ wpc' = [wpc EXCEPT ![r] = "timeout_fired"]
    /\ UNCHANGED <<directVars, supervisorVars, callbacks, nextReq, requests, pending_requests, history, approval_events,
                   raResult, numCalls, okCalls, lastCall, managerVars, bgVars>>

ResumeDecidedCore_KeepsPending(r) ==
    /\ pending_requests' = pending_requests
    /\ history' = Append(history, r)
    /\ raResult' = [raResult EXCEPT ![r] =
            [kind |-> "returned", approved |-> (requests[r].status = "approved"),
             note |-> requests[r].decision_note]]
    /\ approval_events' = [approval_events EXCEPT ![r] = "absent"]

\* request_approval resumed after the event was set: pop, move to history, return
ResumeDecidedCore(r) ==
    /\ pending_requests' = pending_requests \ {r}
    /\ history' = Append(history, r)
    /\ raResult' = [raResult EXCEPT ![r] =
            [kind |-> "returned", approved |-> (requests[r].status = "approved"),
             note |-> requests[r].decision_note]]
    /\ approval_events' = [approval_events EXCEPT ![r] = "absent"]

ResumeTimeoutCore_KeepsPending(r) ==
    /\ requests' = [requests EXCEPT ![r].status = "timeout"]
    /\ pending_requests' = pending_requests
    /\ history' = Append(history, r)
    /\ on_request_decided_timeout(r)
    /\ raResult' = [raResult EXCEPT ![r] =
            [kind |-> "timeout", approved |-> FALSE, note |-> NoNote]]
    /\ approval_events' = [approval_events EXCEPT ![r] = "absent"]

\* request_approval resumed with TimeoutError: mark, pop, move to history, notify, raise
ResumeTimeoutCore(r) ==
    /\ requests' = [requests EXCEPT ![r].status = "timeout"]
    /\ pending_requests' = pending_requests \ {r}
    /\ history' = Append(history, r)
    /\ on_request_decided_timeout(r)
    /\ raResult' = [raResult EXCEPT ![r] =
            [kind |-> "timeout", approved |-> FALSE, note |-> NoNote]]
    /\ approval_events' = [approval_events EXCEPT ![r] = "absent"]

\* a direct caller's request_approval returns the decision
ResumeDecided(r) ==
    /\ wpc[r] = "woken"
    /\ requests[r].waiter = NoTask
    /\ ResumeDecidedCore(r)
    /\ wpc' = [wpc EXCEPT ![r] = "done"]
    /\ UNCHANGED <<directVars, supervisorVars, callbacks, nextReq, requests, numCalls, okCalls, lastCall, managerVars, bgVars>>

\* a direct caller's request_approval raises ApprovalTimeout
ResumeTimeout(r) ==
    /\ wpc[r] = "timeout_fired"
    /\ requests[r].waiter = NoTask
    /\ ResumeTimeoutCore(r)
    /\ wpc' = [wpc EXCEPT ![r] = "done"]
    /\ UNCHANGED <<directVars, supervisorVars, callbacks, nextReq, numCalls, okCalls, lastCall, status, queue_exists,
                   background_tasks, graph_to_manager, bgVars>>

\* ------------------------------------------------- TaskManager and graph

NoParams == [max_iterations |-> 0, enable_hitl |-> FALSE, informational |-> FALSE]
NoAgent == "none"
Agents == {"research", "context", "pr"}

\* TaskState as created by EnhancedOrchestratorGraph.run
InitialTaskState ==
    [status |-> "pending", iteration |-> 0, next_agent |-> NoAgent,
     current_agent |-> NoAgent, agents_called |-> {}, errors |-> 0,
     pr_results |-> "none"]

\* the events one progress_callback invocation emits for graph state gs
ProgressItems(t, gs) ==
    LET cur == gs.current_agent
        prev == prev_agent[t]
        started == IF cur # NoAgent /\ cur # prev
                      THEN (IF prev # NoAgent THEN << <<"agent_complete", 0>> >> ELSE <<>>)
                           \o << <<"agent_start", 0>> >>
                      ELSE <<>>
        routed == IF gs.next_agent # NoAgent /\ gs.next_agent # cur
                     THEN << <<"routing_decision", 0>> >> ELSE <<>>
        iterated == IF gs.iteration > prev_iteration[t]
                       THEN << <<"iteration", 0>> >> ELSE <<>>
    IN started \o routed \o iterated \o << <<"agent_progress", 0>> >>

\* _run_orchestration.progress_callback, called with the state a node returned,
\* followed by the emission of `more` by the same uninterrupted stretch
progress_callback(t, gs, more) ==
    /\ graph_to_manager' = graph_to_manager \cup {t}
    /\ prev_agent' = [prev_agent EXCEPT ![t] = gs.current_agent]
    /\ prev_iteration' = [prev_iteration EXCEPT ![t] =
            IF gs.iteration > @ THEN gs.iteration ELSE @]
    /\ EmitEvents(t, ProgressItems(t, gs) \o more)

route_after_agent_NoIterationCheck(gs, max_iterations) ==
    IF gs.errors >= max_retries THEN "finalize" ELSE "decide_next"

\* edges.route_after_agent
route_after_agent(gs, max_iterations) ==
    IF gs.iteration >= max_iterations THEN "finalize"
    ELSE IF gs.errors >= max_retries THEN "finalize"
    ELSE "decide_next"

\* _build_graph: the conditional edges leaving an agent node
AgentEdge(label) == IF label = "decide_next" THEN "supervisor_route" ELSE "finalize"

\* EnhancedOrchestratorGraph._route_from_supervisor_entry
route_from_supervisor_entry(next_agent) ==
    IF next_agent \in Agents THEN "call_" \o next_agent ELSE "call_research"

\* EnhancedOrchestratorGraph._route_after_supervisor
route_after_supervisor(next_agent) ==
    IF next_agent \in Agents THEN "call_" \o next_agent ELSE "finalize"

Runnable_IgnoresCancel(t, pc) == bpc[t] = pc

\* the task's coroutine may take a step: it exists, is not finished, and no
\* cancellation is waiting to be delivered to it
Runnable(t, pc) == bpc[t] = pc /\ ~cancel_requested[t]

\* a graph node returned gs and the graph moves on to node nextpc
NodeReturn(t, gs, nextpc) ==
    /\ g' = [g EXCEPT ![t] = gs]
    /\ bpc' = [bpc EXCEPT ![t] = nextpc]
    /\ progress_callback(t, gs, <<>>)

\* _run_orchestration, except branch and finally: an exception left orchestrator.run
RunRaises(t) ==
    /\ status' = [status EXCEPT ![t] = "failed"]
    /\ EmitEvents(t, << <<"error", 0>> >>)
    /\ background_tasks' = background_tasks \ {t}
    /\ bpc' = [bpc EXCEPT ![t] = "done"]

\* TaskManager.start_task
StartTask(t, max_iterations, enable_hitl, informational) ==
    /\ status[t] = "absent"
    /\ \A u \in Tasks : u < t => status[u] # "absent"
    /\ params' = [params EXCEPT ![t] = [max_iterations |-> max_iterations,
                    enable_hitl |-> enable_hitl, informational |-> informational]]
    /\ status' = [status EXCEPT ![t] = "pending"]
    /\ queue_exists' = queue_exists \cup {t}
    /\ events' = [events EXCEPT ![t] = AppendEvents(@, << <<"task_start", 0>> >>)]
    /\ event_queues' = [event_queues EXCEPT ![t] =
            AppendEvents(events[t], << <<"task_start", 0>> >>)]
    /\ background_tasks' = background_tasks \cup {t}
    /\ bpc' = [bpc EXCEPT ![t] = "scheduled"]
    /\ UNCHANGED <<directVars, supervisorVars, approvalVars, graph_to_manager, hitl_enabled, cancel_requested, g,
                   prev_agent, prev_iteration, curReq, numCancels, lastCancel, subs>>

\* _run_orchestration up to the first suspension inside orchestrator.run: the
\* shared gate is switched to this request's enable_hitl and the task is Running
BgStart(t) ==
    /\ Runnable(t, "scheduled")
    /\ hitl_enabled' = params[t].enable_hitl
    /\ status' = [status EXCEPT ![t] = "running"]
    /\ bpc' = [bpc EXCEPT ![t] = "supervisor_entry"]
    /\ UNCHANGED <<directVars, supervisorVars, approvalVars, events, event_queues, queue_exists, background_tasks,
                   graph_to_manager, params, cancel_requested, g, prev_agent,
                   prev_iteration, curReq, numCancels, lastCancel, subs>>

\* _run_orchestration when the call orchestrator.run(...) itself raises
BgStartRaises(t) ==
    /\ Runnable(t, "scheduled")
    /\ hitl_enabled' = params[t].enable_hitl
    /\ RunRaises(t)
    /\ UNCHANGED <<directVars, supervisorVars, approvalVars, queue_exists, graph_to_manager, params,
                   cancel_requested, g, prev_agent, prev_iteration, curReq,
                   numCancels, lastCancel, subs>>

\* EnhancedOrchestratorGraph._supervisor_entry_node; raised: the except branch
SupervisorEntry(t, decision, raised) ==
    /\ Runnable(t, "supervisor_entry")
    /\ LET gs == [g[t] EXCEPT !.status = "running",
                               !.next_agent = IF raised THEN "research" ELSE decision,
                               !.errors = IF raised THEN @ + 1 ELSE @]
       IN NodeReturn(t, gs, route_from_supervisor_entry(gs.next_agent))
    /\ UNCHANGED <<directVars, supervisorVars, approvalVars, status, queue_exists, background_tasks, params,
                   hitl_enabled, cancel_requested, curReq, numCancels, lastCancel, subs>>

\* OrchestratorNodes.call_research_agent (and _ollama_research_fallback)
CallResearch(t, outcome) ==
    /\ Runnable(t, "call_research")
    /\ LET called == [g[t] EXCEPT !.agents_called = @ \cup {"research"},
                                   !.current_agent = "research"]
           gs == CASE outcome = "ok" -> called
                   [] outcome = "error" -> [called EXCEPT !.errors = @ + 1]
       IN NodeReturn(t, gs, AgentEdge(route_after_agent(gs, params[t].max_iterations)))
    /\ UNCHANGED <<directVars, supervisorVars, approvalVars, status, queue_exists, background_tasks, params,
                   hitl_enabled, cancel_requested, curReq, numCancels, lastCancel, subs>>

\* OrchestratorNodes.call_context_agent
CallContext(t, outcome) ==
    /\ Runnable(t, "call_context")
    /\ LET called == [g[t] EXCEPT !.agents_called = @ \cup {"context"},
                                   !.current_agent = "context"]
           gs == CASE outcome = "ok" -> called
                   [] outcome = "agent_error" -> [called EXCEPT !.errors = @ + 1]
       IN NodeReturn(t, gs, AgentEdge(route_after_agent(gs, params[t].max_iterations)))
    /\ UNCHANGED <<directVars, supervisorVars, approvalVars, status, queue_exists, background_tasks, params,
                   hitl_enabled, cancel_requested, curReq, numCancels, lastCancel, subs>>

\* an agent node lets an exception other than AgentError escape (a malformed
\* result, generate_preview failing): it leaves the graph and orchestrator.run
AgentNodeRaises(t) ==
    /\ bpc[t] \in {"call_research", "call_context", "call_pr"}
    /\ ~cancel_requested[t]
    /\ RunRaises(t)
    /\ decision_history' = <<>>
    /\ UNCHANGED <<directVars, decisions_of, final_decisions, approvalVars, queue_exists,
                   graph_to_manager, params, hitl_enabled,
                   cancel_requested, g, prev_agent, prev_iteration, curReq,
                   numCancels, lastCancel, subs>>

\* HITLEnhancedNodes.call_pr_agent, phase 1, when generate_preview reports failure
CallPrPreviewFails(t) ==
    /\ Runnable(t, "call_pr")
    /\ LET gs == [g[t] EXCEPT !.errors = @ + 1, !.next_agent = NoAgent]
       IN NodeReturn(t, gs, AgentEdge(route_after_agent(gs, params[t].max_iterations)))
    /\ UNCHANGED <<directVars, supervisorVars, approvalVars, status, queue_exists, background_tasks, params,
                   hitl_enabled, cancel_requested, curReq, numCancels, lastCancel, subs>>

\* call_pr_agent, phase 2, HITLGate.check_approval with the gate disabled:
\* approved at once, the node goes on to commit_and_push
CallPrGateDisabled(t) ==
    /\ Runnable(t, "call_pr")
    /\ ~hitl_enabled
    /\ bpc' = [bpc EXCEPT ![t] = "pr_commit"]
    /\ UNCHANGED <<directVars, supervisorVars, approvalVars, managerVars, params, hitl_enabled, cancel_requested, g,
                   prev_agent, prev_iteration, curReq, numCancels, lastCancel, subs>>

\* call_pr_agent, phase 2, HITLGate.check_approval with the gate enabled:
\* request_approval(PR_CREATE, task_id = the graph's task id) registers the
\* request and suspends the task
CallPrGate(t) ==
    /\ Runnable(t, "call_pr")
    /\ hitl_enabled
    /\ nextReq \in Requests
    /\ RegisterRequest(nextReq, "pr_create", GraphId(t), t)
    /\ curReq' = [curReq EXCEPT ![t] = nextReq]
    /\ bpc' = [bpc EXCEPT ![t] = "pr_wait"]
    /\ UNCHANGED <<directVars, supervisorVars, callbacks, history, numCalls, okCalls, lastCall, status, queue_exists,
                   background_tasks, graph_to_manager, params, hitl_enabled,
                   cancel_requested, g, prev_agent, prev_iteration, numCancels,
                   lastCancel, subs>>

\* the task's request_approval returns a decision to check_approval:
\* approved -> commit_and_push, rejected -> cleanup_branch
PrResumeDecided(t) ==
    /\ Runnable(t, "pr_wait")
    /\ curReq[t] \in Requests
    /\ wpc[curReq[t]] = "woken"
    /\ ResumeDecidedCore(curReq[t])
    /\ wpc' = [wpc EXCEPT ![curReq[t]] = "done"]
    /\ curReq' = [curReq EXCEPT ![t] = 0]
    /\ bpc' = [bpc EXCEPT ![t] =
            IF requests[curReq[t]].status = "approved" THEN "pr_commit" ELSE "pr_cleanup"]
    /\ UNCHANGED <<directVars, supervisorVars, callbacks, nextReq, requests, numCalls, okCalls, lastCall, managerVars, params,
                   hitl_enabled, cancel_requested, g, prev_agent, prev_iteration,
                   numCancels, lastCancel, subs>>

\* the task's request_approval raises ApprovalTimeout: check_approval records
\* an error and re-raises, call_pr_agent goes on to cleanup_branch
PrResumeTimeout(t) ==
    /\ Runnable(t, "pr_wait")
    /\ curReq[t] \in Requests
    /\ wpc[curReq[t]] = "timeout_fired"
    /\ ResumeTimeoutCore(curReq[t])
    /\ wpc' = [wpc EXCEPT ![curReq[t]] = "done"]
    /\ curReq' = [curReq EXCEPT ![t] = 0]
    /\ g' = [g EXCEPT ![t].errors = @ + 1]
    /\ bpc' = [bpc EXCEPT ![t] = "pr_cleanup"]
    /\ UNCHANGED <<directVars, supervisorVars, callbacks, nextReq, numCalls, okCalls, lastCall, status, queue_exists,
                   background_tasks, graph_to_manager, params, hitl_enabled,
                   cancel_requested, prev_agent, prev_iteration, numCancels, lastCancel, subs>>

\* call_pr_agent after a rejection or a timeout: cleanup_branch returned, an
\* error is recorded and next_agent is cleared
PrCleanup(t) ==
    /\ Runnable(t, "pr_cleanup")
    /\ LET gs == [g[t] EXCEPT !.errors = @ + 1, !.next_agent = NoAgent]
       IN NodeReturn(t, gs, AgentEdge(route_after_agent(gs, params[t].max_iterations)))
    /\ UNCHANGED <<directVars, supervisorVars, approvalVars, status, queue_exists, background_tasks, params,
                   hitl_enabled, cancel_requested, curReq, numCancels, lastCancel, subs>>

\* call_pr_agent, phase 3: commit_and_push
PrCommit(t, outcome) ==
    /\ Runnable(t, "pr_commit")
    /\ LET gs == CASE outcome = "success" -> [g[t] EXCEPT !.pr_results = "success"]
                   [] outcome = "failed" -> [g[t] EXCEPT !.pr_results = "failed"]
                   [] outcome = "raised" ->
                        [g[t] EXCEPT !.errors = @ + 1, !.next_agent = NoAgent]
       IN NodeReturn(t, gs, AgentEdge(route_after_agent(gs, params[t].max_iterations)))
    /\ UNCHANGED <<directVars, supervisorVars, approvalVars, status, queue_exists, background_tasks, params,
                   hitl_enabled, cancel_requested, curReq, numCancels, lastCancel, subs>>

\* EnhancedSupervisor.decide_next_route: the checks and heuristics that end the
\* task without asking the model
RouteForcedDone_NoErrorCheck(gs, p) ==
    \/ gs.iteration >= p.max_iterations
    \/ gs.pr_results = "success"
    \/ ("research" \in gs.agents_called /\ "pr" \notin gs.agents_called /\ p.informational)
    \/ Agents \subseteq gs.agents_called

RouteForcedDone(gs, p) ==
    \/ gs.iteration >= p.max_iterations
    \/ gs.errors >= max_retries
    \/ gs.pr_results = "success"
    \/ ("research" \in gs.agents_called /\ "pr" \notin gs.agents_called /\ p.informational)
    \/ Agents \subseteq gs.agents_called

\* decide_next_route's safety checks: they return without recording the decision
SafetyStop(gs, p) == gs.iteration >= p.max_iterations \/ gs.errors >= max_retries

\* whether decide_next_route may append its decision to decision_history when
\* it returns next_agent for state gs: never after a safety check, always after
\* a heuristic or an answer naming an agent; a None from the model is recorded
\* (DONE, unknown answer) or not (timeout, error)
RecordChoices(gs, p, next_agent) ==
    IF SafetyStop(gs, p) THEN {FALSE}
    ELSE IF RouteForcedDone(gs, p) \/ next_agent \in Agents THEN {TRUE}
    ELSE BOOLEAN

\* self.decision_history.append(decision) for a decision made for `owner`
RecordDecision(owner, rec) ==
    decision_history' = IF rec THEN Append(decision_history, owner) ELSE decision_history

\* EnhancedSupervisor.decide_next_route; llm is the model's answer (NoAgent for
\* DONE, an unknown answer, a timeout or an error of the call)
decide_next_route(gs, p, llm) == IF RouteForcedDone(gs, p) THEN NoAgent ELSE llm

\* EnhancedOrchestratorGraph._supervisor_route_node
\*   "ok": the try block completes; "raised_after": it raises after
\*   increment_iteration (add_message); "raised_before": decide_next_route raises
SupervisorRoute(t, llm, outcome) ==
    /\ Runnable(t, "supervisor_route")
    /\ outcome = "raised_before" => ~RouteForcedDone(g[t], params[t])
    /\ outcome # "ok" => llm = NoAgent
    /\ LET gs == CASE outcome = "ok" ->
                        [g[t] EXCEPT !.next_agent = decide_next_route(g[t], params[t], llm),
                                     !.iteration = @ + 1]
                   [] outcome = "raised_after" ->
                        [g[t] EXCEPT !.next_agent = NoAgent, !.iteration = @ + 1,
                                     !.errors = @ + 1]
                   [] outcome = "raised_before" ->
                        [g[t] EXCEPT !.next_agent = NoAgent, !.errors = @ + 1]
       IN NodeReturn(t, gs, route_after_supervisor(gs.next_agent))
    /\ \E rec \in RecordChoices(g[t], params[t], llm) :
          /\ outcome = "raised_before" => ~rec
          /\ RecordDecision(t, rec)
          /\ decisions_of' = [decisions_of EXCEPT ![t] = IF rec THEN @ + 1 ELSE @]
    /\ UNCHANGED <<directVars, final_decisions, approvalVars, status, queue_exists, background_tasks, params,
                   hitl_enabled, cancel_requested, curReq, numCancels, lastCancel, subs>>

Finalize_KeepsStatus(t, failed) ==
    /\ Runnable(t, "finalize")
    /\ LET gs == IF failed THEN [g[t] EXCEPT !.status = "failed", !.errors = @ + 1]
                           ELSE [g[t] EXCEPT !.status = "completed"]
       IN /\ g' = [g EXCEPT ![t] = gs]
          /\ progress_callback(t, gs, << <<"complete", 0>> >>)
          /\ status' = status
    /\ final_decisions' = [final_decisions EXCEPT ![t] =
            IF failed THEN <<>> ELSE decision_history]
    /\ decision_history' = <<>>
    /\ background_tasks' = background_tasks \ {t}
    /\ bpc' = [bpc EXCEPT ![t] = "done"]
    /\ UNCHANGED <<directVars, decisions_of, approvalVars, queue_exists, params, hitl_enabled,
                   cancel_requested, curReq, numCancels, lastCancel, subs>>

\* _enhanced_finalize_node / OrchestratorNodes.finalize, then the rest of
\* _run_orchestration: record result.status, emit COMPLETE, drop the handle
Finalize(t, failed) ==
    /\ Runnable(t, "finalize")
    /\ LET gs == IF failed THEN [g[t] EXCEPT !.status = "failed", !.errors = @ + 1]
                           ELSE [g[t] EXCEPT !.status = "completed"]
       IN /\ g' = [g EXCEPT ![t] = gs]
          /\ progress_callback(t, gs, << <<"complete", 0>> >>)
          /\ status' = [status EXCEPT ![t] = gs.status]
    /\ final_decisions' = [final_decisions EXCEPT ![t] =
            IF failed THEN <<>> ELSE decision_history]
    /\ decision_history' = <<>>
    /\ background_tasks' = background_tasks \ {t}
    /\ bpc' = [bpc EXCEPT ![t] = "done"]
    /\ UNCHANGED <<directVars, decisions_of, approvalVars, queue_exists, params, hitl_enabled,
                   cancel_requested, curReq, numCancels, lastCancel, subs>>

\* TaskManager.cancel_task
CancelTask(t) ==
    /\ numCancels < MaxCancels
    /\ numCancels' = numCancels + 1
    /\ IF t \in background_tasks
          THEN /\ cancel_requested' = [cancel_requested EXCEPT ![t] =
                        bpc[t] \notin {"cancelled", "done"}]
               /\ status' = [status EXCEPT ![t] = "failed"]
               /\ EmitEvents(t, << <<"error", 0>> >>)
               /\ lastCancel' = [task |-> t, ret |-> TRUE]
          ELSE /\ lastCancel' = [task |-> t, ret |-> FALSE]
               /\ UNCHANGED <<cancel_requested, status, events, event_queues>>
    /\ UNCHANGED <<directVars, supervisorVars, approvalVars, queue_exists, background_tasks, graph_to_manager,
                   params, hitl_enabled, bpc, g, prev_agent, prev_iteration, curReq,
                   subs>>

\* the cancellation reaches the task's coroutine at its current suspension
\* point: CancelledError passes every `except Exception`, the finally blocks run
\* (request_approval drops its event, _run_orchestration drops the handle); a
\* coroutine that never started runs no finally block at all
BgCancelled(t) ==
    /\ cancel_requested[t]
    /\ cancel_requested' = [cancel_requested EXCEPT ![t] = FALSE]
    /\ bpc' = [bpc EXCEPT ![t] = "cancelled"]
    /\ background_tasks' = IF bpc[t] = "scheduled" THEN background_tasks
                           ELSE background_tasks \ {t}
    /\ IF bpc[t] = "pr_wait" /\ curReq[t] \in Requests
          THEN /\ approval_events' = [approval_events EXCEPT ![curReq[t]] = "absent"]
               /\ wpc' = [wpc EXCEPT ![curReq[t]] = "cancelled"]
          ELSE UNCHANGED <<approval_events, wpc>>
    /\ curReq' = [curReq EXCEPT ![t] = 0]
    /\ decision_history' = IF bpc[t] = "scheduled" THEN decision_history ELSE <<>>
    /\ UNCHANGED <<directVars, decisions_of, final_decisions, callbacks, nextReq, requests,
                   pending_requests, history, raResult, numCalls,
                   okCalls, lastCall, status, events, event_queues, queue_exists,
                   graph_to_manager, params, hitl_enabled, g, prev_agent,
                   prev_iteration, numCancels, lastCancel, subs>>

\* ------------------------------------- EnhancedSupervisor, called directly

\* RoutingStrategy
RoutingStrategy == {"research_first", "context_first", "adaptive", "parallel"}

\* the first keyword list of _adaptive_strategy the objective matches
Heuristics == {"project", "knowledge", "history", "simple_fix", "none"}

\* what llm.ainvoke does: an answer (stripped, upper-cased), asyncio.TimeoutError
\* or another exception
LlmOutcomes == {"RESEARCH", "CONTEXT", "PR", "DONE", "other", "timeout", "error"}
LlmFailed(o) == o \in {"timeout", "error"}

\* agent_map.get(decision, default)
agent_map(o, default) ==
    CASE o = "RESEARCH" -> "research"
      [] o = "CONTEXT" -> "context"
      [] o = "PR" -> "pr"
      [] OTHER -> default

\* EnhancedSupervisor._adaptive_strategy: keyword heuristics, else the model's
\* answer, else (the call failed) _research_first_strategy
adaptive_strategy(heuristic, o) ==
    CASE heuristic = "project" -> "context"
      [] heuristic = "knowledge" -> "research"
      [] heuristic = "history" -> "context"
      [] heuristic = "simple_fix" -> "pr"
      [] OTHER -> IF LlmFailed(o) THEN "research" ELSE agent_map(o, "research")

\* EnhancedSupervisor.decide_initial_route
decide_initial_route(strategy, heuristic, o) ==
    CASE strategy = "research_first" -> "research"
      [] strategy = "context_first" -> "context"
      [] strategy = "adaptive" -> adaptive_strategy(heuristic, o)
      [] OTHER -> "research"

llm_next_agent_FailureRetries(o) ==
    IF LlmFailed(o) THEN "research"
    ELSE IF o = "DONE" THEN NoAgent ELSE agent_map(o, NoAgent)

\* the next_agent decide_next_route derives from the model's outcome
llm_next_agent(o) == IF LlmFailed(o) \/ o = "DONE" THEN NoAgent ELSE agent_map(o, NoAgent)

\* TaskState snapshots a direct caller may pass, each with the max_iterations
\* and the kind of objective it carries (the validator of TaskState.iteration
\* runs before max_iterations is set and compares with the default of 10, so it
\* rejects none of these)
Snapshots ==
    {<<[InitialTaskState EXCEPT !.iteration = i, !.errors = e, !.pr_results = pr,
                                !.agents_called = a],
       [max_iterations |-> m, enable_hitl |-> FALSE, informational |-> inf]>> :
        m \in 1..MaxSnapshotIterations, i \in 0..MaxSnapshotIterations,
        e \in 0..(max_retries + 1), pr \in {"none", "success", "failed"},
        a \in SUBSET Agents, inf \in BOOLEAN}

NoDecision == [returned |-> FALSE, next_agent |-> NoAgent, llm |-> "none"]
NoSupervisorCall ==
    [op |-> "none", strategy |-> "adaptive", heuristic |-> "none",
     state |-> InitialTaskState, p |-> NoParams, out |-> NoDecision]

\* the calls a direct caller may set up
SupervisorCalls ==
    {[NoSupervisorCall EXCEPT !.op = "initial", !.strategy = st, !.heuristic = h] :
        st \in RoutingStrategy, h \in Heuristics}
    \cup {[NoSupervisorCall EXCEPT !.op = "next", !.state = sn[1], !.p = sn[2]] :
        sn \in Snapshots}

\* a direct call of decide_initial_route; o is consumed only when the model is asked
DecideInitialCall(o) ==
    /\ sup.op = "initial"
    /\ ~sup.out.returned
    /\ LET asked == sup.strategy = "adaptive" /\ sup.heuristic = "none"
       IN sup' = [sup EXCEPT !.out =
                    [returned |-> TRUE,
                     next_agent |-> decide_initial_route(sup.strategy, sup.heuristic, o),
                     llm |-> IF asked THEN o ELSE "not_called"]]
    /\ UNCHANGED <<ts, approvalVars, managerVars, bgVars, supervisorVars>>

\* a direct call of decide_next_route
DecideNextCall(o) ==
    /\ sup.op = "next"
    /\ ~sup.out.returned
    /\ LET asked == ~RouteForcedDone(sup.state, sup.p)
       IN sup' = [sup EXCEPT !.out =
                    [returned |-> TRUE,
                     next_agent |-> decide_next_route(sup.state, sup.p, llm_next_agent(o)),
                     llm |-> IF asked THEN o ELSE "not_called"]]
    /\ RecordDecision(NoTask, ~SafetyStop(sup.state, sup.p)
                                /\ (RouteForcedDone(sup.state, sup.p) \/ ~LlmFailed(o)))
    /\ UNCHANGED <<ts, approvalVars, managerVars, bgVars, decisions_of, final_decisions>>

\* --------------------------------------- TaskState helpers, called directly

\* TaskStatus
TaskStatus == {"pending", "running", "waiting_approval", "completed", "failed", "cancelled"}

\* the fields of a TaskState the transition helpers read or write; approved is
\* Optional[bool], final_output Optional[str], errors the length of the list
TaskStates ==
    [status : TaskStatus, requires_approval : BOOLEAN, approved : {"none", "true", "false"},
     final_output : {"none", "out"}, errors : 0..max_retries]

NoHelperCall == [helper |-> "none", before |-> "pending"]

\* TaskState.request_approval
request_approval(s) ==
    [s EXCEPT !.requires_approval = TRUE, !.status = "waiting_approval"]

\* TaskState.approve
approve(s) == [s EXCEPT !.approved = "true", !.requires_approval = FALSE, !.status = "running"]

\* TaskState.reject
reject(s) == [s EXCEPT !.approved = "false", !.requires_approval = FALSE, !.status = "cancelled"]

\* TaskState.complete
complete(s) == [s EXCEPT !.status = "completed", !.final_output = "out"]

\* TaskState.fail
fail(s) == [s EXCEPT !.status = "failed", !.errors = @ + 1]

TransitionHelpers == {"request_approval", "approve", "reject", "complete", "fail"}

\* a direct caller invokes one of the helpers on the TaskState
HelperCall(h) ==
    /\ ts.call.helper = "none"
    /\ ts' = [state |-> CASE h = "request_approval" -> request_approval(ts.state)
                           [] h = "approve" -> approve(ts.state)
                           [] h = "reject" -> reject(ts.state)
                           [] h = "complete" -> complete(ts.state)
                           [] h = "fail" -> fail(ts.state),
               call |-> [helper |-> h, before |-> ts.state.status]]
    /\ UNCHANGED <<sup, approvalVars, managerVars, bgVars, supervisorVars>>

\* ------------------------------------------------- stream_task_progress

Subscribers == 1..NumSubscribers
LastSeenIds == -1..MaxLastSeen     \* -1: no Last-Event-ID header
IdleSubscriber == [state |-> "idle", task |-> NoTask, last_seen |-> -1, idx |-> 0,
                   received |-> <<>>]

\* stream_task_progress: the task exists, the Last-Event-ID header is parsed and
\* the response starts its event_generator
Connect(k, t, last_seen_id) ==
    /\ subs[k].state = "idle"
    /\ \A j \in Subscribers : j < k => subs[j].state # "idle"
    /\ status[t] # "absent"
    /\ subs' = [subs EXCEPT ![k] = [state |-> "replay", task |-> t,
                    last_seen |-> last_seen_id, idx |-> 0, received |-> <<>>]]
    /\ UNCHANGED <<directVars, supervisorVars, approvalVars, managerVars, params, hitl_enabled, bpc,
                   cancel_requested, g, prev_agent, prev_iteration, curReq,
                   numCancels, lastCancel>>

ReplayStep_NeverCloses(k) ==
    /\ subs[k].state = "replay"
    /\ LET t == subs[k].task
           log == events[t]
           rest == {i \in (subs[k].idx + 1)..Len(log) :
                        log[i].event_id > subs[k].last_seen}
       IN IF rest # {}
             THEN LET i == CHOOSE i \in rest : \A j \in rest : i <= j
                  IN subs' = [subs EXCEPT ![k].idx = i,
                                          ![k].received = Append(@, log[i].event_id)]
             ELSE subs' = [subs EXCEPT ![k].state = "live"]
    /\ UNCHANGED <<directVars, supervisorVars, approvalVars, managerVars, params, hitl_enabled, bpc,
                   cancel_requested, g, prev_agent, prev_iteration, curReq,
                   numCancels, lastCancel>>

\* event_generator resumed inside the replay loop over the live list
\* get_events returned: yield the next stored event newer than last_seen_id, or
\* leave the loop, close if the task is finished, else go on to the queue
ReplayStep(k) ==
    /\ subs[k].state = "replay"
    /\ LET t == subs[k].task
           log == events[t]
           rest == {i \in (subs[k].idx + 1)..Len(log) :
                        log[i].event_id > subs[k].last_seen}
       IN IF rest # {}
             THEN LET i == CHOOSE i \in rest : \A j \in rest : i <= j
                  IN subs' = [subs EXCEPT ![k].idx = i,
                                          ![k].received = Append(@, log[i].event_id)]
             ELSE subs' = [subs EXCEPT ![k].state =
                        IF status[t] \in {"completed", "failed"} THEN "closed" ELSE "live"]
    /\ UNCHANGED <<directVars, supervisorVars, approvalVars, managerVars, params, hitl_enabled, bpc,
                   cancel_requested, g, prev_agent, prev_iteration, curReq,
                   numCancels, lastCancel>>

\* event_generator in the live loop: queue.get() on the queue get_event_queue
\* returned (the one queue of the task), yield, stop after COMPLETE or ERROR
LiveGet(k) ==
    /\ subs[k].state = "live"
    /\ LET t == subs[k].task
       IN /\ event_queues[t] # <<>>
          /\ event_queues' = [event_queues EXCEPT ![t] = Tail(@)]
          /\ subs' = [subs EXCEPT
                ![k].received = Append(@, Head(event_queues[t]).event_id),
                ![k].state = IF Head(event_queues[t]).event \in {"complete", "error"}
                                THEN "closed" ELSE "live"]
    /\ UNCHANGED <<directVars, supervisorVars, approvalVars, status, events, queue_exists, background_tasks,
                   graph_to_manager, params, hitl_enabled, bpc, cancel_requested, g,
                   prev_agent, prev_iteration, curReq, numCancels, lastCancel>>

\* ------------------------------------------------------------ initial state

InitApproval ==
    /\ nextReq = 1
    /\ requests = [r \in Requests |-> NoRequest]
    /\ pending_requests = {}
    /\ history = <<>>
    /\ approval_events = [r \in Requests |-> "absent"]
    /\ wpc = [r \in Requests |-> "none"]
    /\ raResult = [r \in Requests |-> NoResult]
    /\ numCalls = 0
    /\ okCalls = [r \in Requests |-> <<>>]
    /\ lastCall = NoCall
    /\ callbacks = "wired"

InitManager ==
    /\ status = [t \in Tasks |-> "absent"]
    /\ events = [t \in Tasks |-> <<>>]
    /\ event_queues = [t \in Tasks |-> <<>>]
    /\ queue_exists = {}
    /\ background_tasks = {}
    /\ graph_to_manager = {}

InitBackground ==
    /\ params = [t \in Tasks |-> NoParams]
    /\ hitl_enabled = TRUE
    /\ bpc = [t \in Tasks |-> "none"]
    /\ cancel_requested = [t \in Tasks |-> FALSE]
    /\ g = [t \in Tasks |-> InitialTaskState]
    /\ prev_agent = [t \in Tasks |-> NoAgent]
    /\ prev_iteration = [t \in Tasks |-> 0]
    /\ curReq = [t \in Tasks |-> 0]
    /\ numCancels = 0
    /\ lastCancel = [task |-> NoTask, ret |-> FALSE]

InitSubscribers == subs = [k \in Subscribers |-> IdleSubscriber]

\* TaskState(objective=...) with the defaults of its fields
NewTaskState ==
    [status |-> "pending", requires_approval |-> FALSE, approved |-> "none",
     final_output |-> "none", errors |-> 0]

InitTaskState == ts = [state |-> NewTaskState, call |-> NoHelperCall]

InitSupervisor ==
    /\ sup = NoSupervisorCall
    /\ decision_history = <<>>
    /\ decisions_of = [t \in Tasks |-> 0]
    /\ final_decisions = [t \in Tasks |-> <<>>]

Init ==
    /\ InitApproval /\ InitManager /\ InitBackground /\ InitSubscribers
    /\ InitSupervisor /\ InitTaskState

\* the approval gate driven by direct callers only
NextApproval ==
    \/ \E op \in OperationType, tid \in {NoTaskId} : RequestApproval(op, tid)
    \/ \E r \in Requests, note \in Notes : Approve(r, note)
    \/ \E r \in Requests, note \in Notes : Reject(r, note)
    \/ \E r \in Requests : TimeoutFires(r)
    \/ \E r \in Requests : ResumeDecided(r)
    \/ \E r \in Requests : ResumeTimeout(r)
    \/ \E c \in Observers : SetCallbacks(c)

SpecApproval == Init /\ [][NextApproval]_vars

\* the same callers on a running event loop: the timer asyncio.wait_for arms
\* with the request's timeout fires while the coroutine still waits, and a
\* coroutine the loop has scheduled to resume is resumed
SpecApprovalFair ==
    /\ SpecApproval
    /\ \A r \in Requests : /\ WF_vars(TimeoutFires(r))
                           /\ WF_vars(ResumeTimeout(r))
                           /\ WF_vars(ResumeDecided(r))

\* the agents a routing decision may name, and NoAgent for DONE
RouteChoices == Agents \cup {NoAgent}

\* no task other than t was ever started
Alone(t) == \A u \in Tasks \ {t} : status[u] = "absent"

\* one task run by the TaskManager, with its approval gate and the callers of
\* approve, reject and cancel_task
Next ==
    \/ \E t \in Tasks, m \in 1..MaxIterations, h \in BOOLEAN, inf \in BOOLEAN :
            Alone(t) /\ StartTask(t, m, h, inf)
    \/ \E t \in Tasks : BgStart(t)
    \/ \E t \in Tasks : BgStartRaises(t)
    \/ \E t \in Tasks, d \in Agents, raised \in BOOLEAN :
            (raised => d = "research") /\ SupervisorEntry(t, d, raised)
    \/ \E t \in Tasks, o \in {"ok", "error"} : CallResearch(t, o)
    \/ \E t \in Tasks, o \in {"ok", "agent_error"} : CallContext(t, o)
    \/ \E t \in Tasks : AgentNodeRaises(t)
    \/ \E t \in Tasks : CallPrPreviewFails(t)
    \/ \E t \in Tasks : CallPrGateDisabled(t)
    \/ \E t \in Tasks : CallPrGate(t)
    \/ \E t \in Tasks : PrResumeDecided(t)
    \/ \E t \in Tasks : PrResumeTimeout(t)
    \/ \E t \in Tasks : PrCleanup(t)
    \/ \E t \in Tasks, o \in {"success", "failed", "raised"} : PrCommit(t, o)
    \/ \E t \in Tasks, d \in RouteChoices, o \in {"ok", "raised_after", "raised_before"} :
            SupervisorRoute(t, d, o)
    \/ \E t \in Tasks, failed \in BOOLEAN : Finalize(t, failed)
    \/ \E t \in Tasks : CancelTask(t)
    \/ \E t \in Tasks : BgCancelled(t)
    \/ \E r \in pending_requests : Approve(r, "n1")
    \/ \E r \in pending_requests : Reject(r, "n2")
    \/ \E r \in Requests : TimeoutFires(r)

Spec == Init /\ [][Next]_vars

\* any step of the coroutine of task t: a node returning or raising, the gate
\* resuming, or the delivery of a cancellation
UnitStep(t) ==
    \/ BgStart(t)
    \/ BgStartRaises(t)
    \/ \E d \in Agents, raised \in BOOLEAN :
            (raised => d = "research") /\ SupervisorEntry(t, d, raised)
    \/ \E o \in {"ok", "error"} : CallResearch(t, o)
    \/ \E o \in {"ok", "agent_error"} : CallContext(t, o)
    \/ AgentNodeRaises(t)
    \/ CallPrPreviewFails(t)
    \/ CallPrGateDisabled(t)
    \/ CallPrGate(t)
    \/ PrResumeDecided(t)
    \/ PrResumeTimeout(t)
    \/ PrCleanup(t)
    \/ \E o \in {"success", "failed", "raised"} : PrCommit(t, o)
    \/ \E d \in RouteChoices, o \in {"ok", "raised_after", "raised_before"} :
            SupervisorRoute(t, d, o)
    \/ \E failed \in BOOLEAN : Finalize(t, failed)
    \/ BgCancelled(t)

\* the same program on a running event loop where every awaited call ends: a
\* coroutine that can take a step takes one, and the timer of a pending
\* approval fires while the request still waits
SpecFair ==
    /\ Spec
    /\ \A t \in Tasks : WF_vars(UnitStep(t))
    /\ \A r \in Requests : WF_vars(TimeoutFires(r))

\* one task that researches and finishes, a caller of cancel_task, and the
\* connections streaming its events
NextStream ==
    \/ \E t \in Tasks : Alone(t) /\ StartTask(t, 1, FALSE, TRUE)
    \/ \E t \in Tasks : BgStart(t)
    \/ \E t \in Tasks : SupervisorEntry(t, "research", FALSE)
    \/ \E t \in Tasks : CallResearch(t, "ok")
    \/ \E t \in Tasks : SupervisorRoute(t, NoAgent, "ok")
    \/ \E t \in Tasks : Finalize(t, FALSE)
    \/ \E t \in Tasks : CancelTask(t)
    \/ \E t \in Tasks : BgCancelled(t)
    \/ \E k \in Subscribers, t \in Tasks, last \in LastSeenIds : Connect(k, t, last)
    \/ \E k \in Subscribers : ReplayStep(k)
    \/ \E k \in Subscribers : LiveGet(k)

SpecStream == Init /\ [][NextStream]_vars

\* any step of the coroutine of the streamed task t
StreamUnitStep(t) ==
    \/ BgStart(t)
    \/ SupervisorEntry(t, "research", FALSE)
    \/ CallResearch(t, "ok")
    \/ SupervisorRoute(t, NoAgent, "ok")
    \/ Finalize(t, FALSE)

\* one task that researches and finishes while connections stream its events
NextStreamLive ==
    \/ \E t \in Tasks : Alone(t) /\ StartTask(t, 1, FALSE, TRUE)
    \/ \E t \in Tasks : StreamUnitStep(t)
    \/ \E k \in Subscribers, t \in Tasks : Connect(k, t, -1)
    \/ \E k \in Subscribers : ReplayStep(k)
    \/ \E k \in Subscribers : LiveGet(k)

\* the same on a running event loop: the task's coroutine goes on, and a
\* generator that has an event to yield is resumed
SpecStreamLive ==
    /\ Init /\ [][NextStreamLive]_vars
    /\ \A t \in Tasks : WF_vars(StreamUnitStep(t))
    /\ \A k \in Subscribers : WF_vars(ReplayStep(k)) /\ WF_vars(LiveGet(k))

\* the supervisor's two routing functions applied to every bounded input
InitSupervisorCalls ==
    /\ InitApproval /\ InitManager /\ InitBackground /\ InitSubscribers /\ InitTaskState
    /\ sup \in SupervisorCalls
    /\ decision_history = <<>>
    /\ decisions_of = [t \in Tasks |-> 0]
    /\ final_decisions = [t \in Tasks |-> <<>>]

NextSupervisor ==
    \/ \E o \in LlmOutcomes : DecideInitialCall(o)
    \/ \E o \in LlmOutcomes : DecideNextCall(o)

SpecSupervisor == InitSupervisorCalls /\ [][NextSupervisor]_vars

\* the transition helpers applied to every TaskState of the bounded field values
InitTaskStates ==
    /\ InitApproval /\ InitManager /\ InitBackground /\ InitSubscribers /\ InitSupervisor
    /\ ts \in [state : TaskStates, call : {NoHelperCall}]

NextTaskState == \E h \in TransitionHelpers : HelperCall(h)

SpecTaskState == InitTaskStates /\ [][NextTaskState]_vars

\* tasks started one after the other while earlier ones still run, each routed
\* straight to the PR step, and a caller approving their requests
NextShared ==
    \/ \E t \in Tasks, h \in BOOLEAN : StartTask(t, 1, h, FALSE)
    \/ \E t \in Tasks : BgStart(t)
    \/ \E t \in Tasks : SupervisorEntry(t, "pr", FALSE)
    \/ \E t \in Tasks : CallPrGateDisabled(t)
    \/ \E t \in Tasks : CallPrGate(t)
    \/ \E t \in Tasks : PrResumeDecided(t)
    \/ \E t \in Tasks : PrCommit(t, "success")
    \/ \E t \in Tasks : SupervisorRoute(t, NoAgent, "ok")
    \/ \E t \in Tasks : Finalize(t, FALSE)
    \/ \E r \in pending_requests : Approve(r, "n1")

SpecShared == Init /\ [][NextShared]_vars

\* ------------------------------------------------------------------ claims

\* the approve/reject calls on request r that returned true
TrueCalls(r) == DOMAIN okCalls[r]

\* C1: for every approval request at most one approve/reject call ever returns
\* true, so at most one decision is recorded for it
C1_AtMostOneDecision == \A r \in Requests : Cardinality(TrueCalls(r)) <= 1

\* C5: once request_approval has finished for a request on which an approve or
\* reject call returned true, it returned a decision (it did not fail with the
\* timeout condition) and the request is recorded as Approved or Rejected, never
\* TimedOut
C5_DecisionBeatsTimeout ==
    \A r \in Requests :
        (wpc[r] = "done" /\ TrueCalls(r) # {})
            => /\ raResult[r].kind = "returned"
               /\ requests[r].status \in {"approved", "rejected"}

\* C6: a request whose risk level is Low is never in the pending set, never has
\* a waiter suspended on it, and its request_approval has already returned
\* approved = true in the state right after the call
C6_LowRiskAutoApproved ==
    \A r \in Requests :
        requests[r].risk_level = "low"
            => /\ r \notin pending_requests
               /\ approval_events[r] = "absent"
               /\ wpc[r] = "done"
               /\ raResult[r].kind = "returned"
               /\ raResult[r].approved

C6_Witness ==
    \E r \in Requests : requests[r].risk_level = "low" /\ raResult[r].kind = "returned"

\* the sequence ids a subscriber was sent, as a set
Delivered(k) == {subs[k].received[i] : i \in DOMAIN subs[k].received}

\* C2: a subscriber that connected with last_seen_id = k has been sent, so far,
\* exactly the events k+1, k+2, ... in that order: no event twice, none out of
\* order, none with an id <= k, none skipped
C2_ExactlyOnceInOrder ==
    \A k \in Subscribers :
        \A i \in DOMAIN subs[k].received :
            subs[k].received[i] = subs[k].last_seen + i

C4_SequenceIdsAreLogPositions ==
    \A t \in Tasks : \A i \in DOMAIN events[t] : events[t][i].event_id = i - 1

C4_Witness ==
    \E t \in Tasks :
        /\ \E i \in DOMAIN events[t] : events[t][i].event = "approval_decided"
        /\ \E i \in DOMAIN events[t] : events[t][i].event = "agent_progress"
        /\ events[t][Len(events[t])].event = "error"
        /\ lastCancel = [task |-> t, ret |-> TRUE]

UndecidedTimeouts(t) ==
    {r \in Requests : /\ requests[r].waiter = t
                      /\ requests[r].status = "timeout"
                      /\ TrueCalls(r) = {}}

AgentSteps == {"call_research", "call_context", "call_pr", "pr_wait", "pr_commit",
               "pr_cleanup"}

Terminal == {"completed", "failed", "cancelled"}

\* the moves of the recorded status along
\* Pending -> Running -> (WaitingApproval <-> Running)* -> terminal
ChainMoves ==
    {<<"absent", "pending">>, <<"pending", "running">>,
     <<"running", "waiting_approval">>, <<"waiting_approval", "running">>}
    \cup {<<from, to>> : from \in {"running", "waiting_approval"}, to \in Terminal}

\* the first stretch of _run_orchestration records Running and, when
\* orchestrator.run raises at once, Failed right after it
ThroughRunning(t) == bpc[t] = "scheduled" /\ bpc'[t] = "done"

C12_PendingSetHoldsOnlyPending ==
    \A r \in pending_requests : requests[r].status = "pending"

\* the positions of request r in the history list
HistoryEntries(r) == {i \in DOMAIN history : history[i] = r}

\* C13: no request is in the pending set and in the history list at once, and
\* the history list holds at most one entry per request
C13_PendingXorHistoryOnce ==
    \A r \in Requests :
        /\ ~(r \in pending_requests /\ HistoryEntries(r) # {})
        /\ Cardinality(HistoryEntries(r)) <= 1

\* a request on which a decision and the timeout raced is in history, once
C13_Witness ==
    \E r \in Requests :
        /\ HistoryEntries(r) # {}
        /\ TrueCalls(r) # {}
        /\ requests[r].status = "timeout"

\* C14: an approve/reject call on an id that is not in the pending set returns
\* false and leaves the pending set, the history and every request unchanged
C14_UnknownIdIsNoOp ==
    [][(numCalls' # numCalls /\ lastCall'.r \notin pending_requests)
          => /\ lastCall'.ret = FALSE
             /\ pending_requests' = pending_requests
             /\ history' = history
             /\ requests' = requests]_vars

\* the latest call was made on a request already moved to history
C14_Witness ==
    /\ lastCall.op # "none"
    /\ ~lastCall.ret
    /\ HistoryEntries(lastCall.r) # {}

\* the status a decision call records
StatusOf(op) == IF op = "approve" THEN "approved" ELSE "rejected"

\* C15: when request_approval resumes after exactly one decision made before
\* the timeout, it returns that decision with its note, and the request is then
\* in history with the matching status and no longer pending
C15_SingleDecisionIsReturned ==
    [][\A r \in Requests :
            (wpc[r] = "woken" /\ wpc'[r] = "done" /\ Len(okCalls[r]) = 1)
                => /\ raResult'[r] = [kind |-> "returned",
                                      approved |-> (okCalls[r][1].op = "approve"),
                                      note |-> okCalls[r][1].note]
                   /\ requests'[r].status = StatusOf(okCalls[r][1].op)
                   /\ r \notin pending_requests'
                   /\ history' = Append(history, r)]_vars

\* a request rejected once was returned to its caller as rejected with the note
C15_Witness ==
    \E r \in Requests :
        /\ wpc[r] = "done"
        /\ Len(okCalls[r]) = 1
        /\ okCalls[r][1].op = "reject"
        /\ raResult[r] = [kind |-> "returned", approved |-> FALSE,
                          note |-> okCalls[r][1].note]

\* the request was resolved by timeout and its caller got ApprovalTimeout
TimedOutResolved(r) ==
    /\ requests[r].status = "timeout"
    /\ r \notin pending_requests
    /\ HistoryEntries(r) # {}
    /\ raResult[r].kind = "timeout"

\* C16: a request whose caller waits is eventually either decided by a call
\* that returned true or resolved by timeout (status timeout, not pending, in
\* history, ApprovalTimeout raised to the caller)
C16_UndecidedEventuallyTimesOut ==
    \A r \in Requests :
        (wpc[r] = "waiting") ~> (TrueCalls(r) # {} \/ TimedOutResolved(r))

\* a request nobody ever decided was resolved by timeout
C16_Witness ==
    \E r \in Requests : TrueCalls(r) = {} /\ TimedOutResolved(r) /\ wpc[r] = "done"

\* some reject call on r returned true
RejectedOnce(r) == \E i \in DOMAIN okCalls[r] : okCalls[r][i].op = "reject"

GateRefused(t) ==
    \E r \in Requests :
        /\ requests[r].waiter = t
        /\ \/ raResult[r].kind = "timeout"
           \/ raResult[r].kind = "returned" /\ ~raResult[r].approved

StoredErrors(t) == IF g[t].status \in {"completed", "failed"} THEN g[t].errors ELSE 0

\* C19: every task whose recorded status is failed carries at least one error
C19_FailedCarriesErrors ==
    \A t \in Tasks : status[t] = "failed" => StoredErrors(t) > 0

\* C20: with an observer that raises installed, a step of the approval
\* manager still registers the request and lets its caller wait, approve and
\* reject still record the decision, wake the caller and return true, and the
\* caller still gets the decision or the timeout
C20_ObserverFailureNeverPropagates ==
    [][callbacks = "raising" =>
        \A r \in Requests :
            /\ (requests[r].status = "none" /\ requests'[r].status # "none"
                    /\ requires_approval(requests'[r].risk_level))
                 => /\ r \in pending_requests'
                    /\ requests'[r].status = "pending"
                    /\ wpc'[r] = "waiting"
            /\ (numCalls' # numCalls /\ lastCall'.r = r /\ r \in pending_requests)
                 => /\ lastCall'.ret
                    /\ requests'[r].status = StatusOf(lastCall'.op)
                    /\ requests'[r].decision_note = lastCall'.note
                    /\ wpc[r] = "waiting" => wpc'[r] = "woken"
            /\ (wpc[r] = "woken" /\ wpc'[r] = "done")
                 => raResult'[r] = [kind |-> "returned",
                                    approved |-> (requests[r].status = "approved"),
                                    note |-> requests[r].decision_note]
            /\ (wpc[r] = "timeout_fired" /\ wpc'[r] = "done")
                 => /\ requests'[r].status = "timeout"
                    /\ r \notin pending_requests'
                    /\ raResult'[r].kind = "timeout"]_vars

\* with the raising observer installed, a decision call returned true and the
\* waiting caller got that decision
C20_Witness ==
    /\ callbacks = "raising"
    /\ lastCall.ret
    /\ raResult[lastCall.r].kind = "returned"
    /\ raResult[lastCall.r].note = lastCall.note

\* the ids of the stored events of task t newer than last, in log order
StoredAfter(t, last) ==
    LET n == Cardinality({i \in DOMAIN events[t] : events[t][i].event_id > last})
    IN [j \in 1..n |-> events[t][Len(events[t]) - n + j].event_id]

\* C21: a connection replaying the log of a task whose status is completed or
\* failed never goes on to the live queue: it stays in the replay or closes,
\* and when it closes it has been sent exactly the stored events newer than
\* last_seen_id, in log order
C21_TerminalTaskReplayOnly ==
    [][\A k \in Subscribers :
            (subs[k].state = "replay" /\ status[subs[k].task] \in Terminal)
                => /\ subs'[k].state \in {"replay", "closed"}
                   /\ subs'[k].state = "closed"
                        => subs'[k].received = StoredAfter(subs[k].task, subs[k].last_seen)]_vars

\* a connection to a finished task closed after a non-empty replay while the
\* task's queue still held every event of the log
C21_Witness ==
    \E k \in Subscribers :
        /\ subs[k].state = "closed"
        /\ subs[k].received # <<>>
        /\ status[subs[k].task] \in Terminal
        /\ Len(event_queues[subs[k].task]) = Len(events[subs[k].task])

\* the task's _run_orchestration coroutine has neither finished nor been cancelled
UnitRunning(t) == bpc[t] \notin {"none", "done", "cancelled"}

\* C22: a cancel_task call on a task whose unit of work is still running
\* returns true, records a terminal status and appends an error event; a call
\* on an unknown task or on one whose unit of work has ended returns false and
\* changes no status and no event log
C22_CancelResult ==
    [][numCancels' # numCancels =>
        LET t == lastCancel'.task
        IN IF UnitRunning(t)
              THEN /\ lastCancel'.ret
                   /\ status'[t] \in Terminal
                   /\ Len(events'[t]) = Len(events[t]) + 1
                   /\ events'[t][Len(events'[t])].event = "error"
              ELSE /\ ~lastCancel'.ret
                   /\ status' = status
                   /\ events' = events]_vars

\* C23: after a cancel_task call on a task has returned true the manager
\* holds no live queue for that task
C23_QueueReleasedAfterCancel ==
    lastCancel.ret => lastCancel.task \notin queue_exists

\* C24: decide_next_route called on a snapshot with iteration >= max_iterations
\* or len(errors) >= max_retries returns next_agent = None and does not ask the
\* model
C24_SafetyChecksSkipModel ==
    (sup.op = "next" /\ sup.out.returned
        /\ (sup.state.iteration >= sup.p.max_iterations \/ sup.state.errors >= max_retries))
      => /\ sup.out.next_agent = NoAgent
         /\ sup.out.llm = "not_called"

\* decide_next_route returned for a snapshot that only the error check stops
C24_Witness ==
    /\ sup.op = "next" /\ sup.out.returned
    /\ sup.state.errors >= max_retries
    /\ sup.state.iteration < sup.p.max_iterations
    /\ sup.state.pr_results = "none" /\ sup.state.agents_called = {}
    /\ sup.out.next_agent = NoAgent

C26_DecisionLeavesTaskRecords ==
    [][numCalls' # numCalls =>
        /\ status' = status
        /\ \A t \in Tasks : /\ g'[t].iteration = g[t].iteration
                            /\ g'[t].errors = g[t].errors
                            /\ g'[t].status = g[t].status]_vars

\* a reject call on the request of a waiting task returned true and its
\* decided event is the last one in that task's log
C26_Witness ==
    /\ lastCall.ret /\ lastCall.op = "reject"
    /\ \E t \in Tasks :
          /\ requests[lastCall.r].waiter = t
          /\ bpc[t] = "pr_wait"
          /\ events[t] # <<>>
          /\ events[t][Len(events[t])].event = "approval_decided"

C28_EveryTaskTerminates ==
    /\ \A t \in Tasks : (status[t] # "absent") ~> (status[t] \in Terminal)
    /\ [](\A t \in Tasks : status[t] # "absent" => g[t].iteration <= params[t].max_iterations)

\* a task that used its whole iteration budget and whose approval wait ended
\* by timeout has finished
C28_Witness ==
    \E t \in Tasks :
        /\ status[t] \in Terminal
        /\ bpc[t] = "done"
        /\ g[t].iteration = params[t].max_iterations
        /\ \E r \in Requests : requests[r].waiter = t /\ requests[r].status = "timeout"

\* C29: classify gives every operation kind one risk level, medium for a kind
\* that is no key of RISK_LEVELS; requires_approval is false exactly for low;
\* and every registered request carries classify of its kind and was made
\* pending exactly when that level is not low
C29_ClassifyTotalAndLowExempt ==
    /\ \A op \in OperationKinds :
          /\ classify(op) \in RiskLevel
          /\ op \in DOMAIN RISK_LEVELS => classify(op) = RISK_LEVELS[op]
          /\ op \notin DOMAIN RISK_LEVELS => classify(op) = "medium"
    /\ \A l \in RiskLevel : requires_approval(l) <=> l # "low"
    /\ \A r \in Requests :
          requests[r].status # "none"
            => /\ requests[r].risk_level = classify(requests[r].operation_type)
               /\ (raResult[r].note = "auto") <=> (requests[r].risk_level = "low")
               /\ requests[r].risk_level # "low"
                    => (r \in pending_requests \/ HistoryEntries(r) # {})

\* one request of a low-risk kind was auto-approved and one of a medium-risk
\* kind was made pending
C29_Witness ==
    \E r1, r2 \in Requests :
        /\ requests[r1].risk_level = "low" /\ raResult[r1].note = "auto"
        /\ requests[r2].risk_level = "medium" /\ r2 \in pending_requests

\* C30: in every task's event log a terminal event (complete or error) is the
\* last event: there is at most one and nothing follows it
C30_TerminalEventIsLast ==
    \A t \in Tasks :
        \A i \in DOMAIN events[t] :
            events[t][i].event \in {"complete", "error"} => i = Len(events[t])

\* the approval events stored in the log of task t
ApprovalEventsOf(t) ==
    {i \in DOMAIN events[t] : events[t][i].event \in {"approval_required", "approval_decided"}}

LoggedFor(t, r, kinds) ==
    \E i \in DOMAIN events[t] : events[t][i].event \in kinds /\ events[t][i].request_id = r

InApprovalGate(t) == bpc[t] = "pr_wait" /\ curReq[t] \in Requests

OwnDecisions(t) == [i \in 1..decisions_of[t] |-> t]

TerminalEventsOf(t) ==
    {events[t][i].event : i \in {j \in DOMAIN events[t] :
                                    events[t][j].event \in {"complete", "error"}}}

IterationStep(t) ==
    g'[t].iteration # g[t].iteration =>
        /\ bpc[t] = "supervisor_route"
        /\ g[t].iteration < params[t].max_iterations
        /\ g'[t].iteration = g[t].iteration + 1

\* C36: iteration <= max_iterations in every reachable task state; the counter
\* is incremented only by the routing step, which is entered only while
\* iteration < max_iterations
C36_IterationWithinLimit ==
    /\ [](\A t \in Tasks : g[t].iteration <= params[t].max_iterations)
    /\ [][\A t \in Tasks : IterationStep(t)]_vars

\* the routing step took a task to its limit and sent it to a second agent,
\* whose outgoing edge then chose finalize
C36_Witness ==
    \E t \in Tasks :
        /\ g[t].iteration = params[t].max_iterations
        /\ g[t].iteration > 0
        /\ Cardinality(g[t].agents_called) >= 2
        /\ bpc[t] = "finalize"

\* C37: a transition helper called on a TaskState whose status is Completed,
\* Failed or Cancelled leaves the status unchanged
C37_HelpersKeepTerminalStatus ==
    ts.call.helper # "none" /\ ts.call.before \in Terminal => ts.state.status = ts.call.before

\* this step is a cancel_task(t) call made right after a cancel_task(t) call
\* that returned true
CancelledAgain(t) ==
    /\ lastCancel = [task |-> t, ret |-> TRUE]
    /\ numCancels' = numCancels + 1
    /\ lastCancel'.task = t

\* C38: a cancel_task(t) call following a cancel_task(t) call that returned
\* true returns false and appends no event to the task's log
C38_CancelTakesEffectOnce ==
    [][\A t \in Tasks :
          CancelledAgain(t) => lastCancel'.ret = FALSE /\ events'[t] = events[t]]_vars

\* the connection k is open on a task that has reached a terminal status
OpenOnFinished(k) ==
    /\ subs[k].state \in {"replay", "live"}
    /\ status[subs[k].task] \in Terminal

====
